---- MODULE Spec2Model ----
(***************************************************************************)
(* The Streamlit script app.py as a state machine.  One run of the script  *)
(* (one UI interaction) walks top to bottom through the sidebar, the five  *)
(* tabs and the sidebar footer; pc is the position in the script.  The     *)
(* classes imported from `backend` (CaloriePredictor, NutritionAdvisor,    *)
(* LogBook, AIAnalyzer) are not part of the available source: they are     *)
(* modelled from the specification's description of them.                  *)
(*                                                                         *)
(* Numbers.  Python floats are modelled by exact rationals <<num, den>>    *)
(* (den > 0, lowest terms).  The one place where the rounding of a double  *)
(* changes a comparison the script or the advisor makes is the BMI         *)
(* division at an exact threshold; a BMI therefore carries the sign of its *)
(* rounding error (see BmiUlp).                                            *)
(*                                                                         *)
(* Time.  The clock counts days and advances between runs only: a run is   *)
(* one request and every LogBook call of it sees the same time.            *)
(***************************************************************************)
EXTENDS Integers, Sequences, FiniteSets, TLC

VARIABLES
    store,          \* the process-local log behind every LogBook object
    now,            \* the clock, in days
    pc,             \* position of the running script ("idle" between runs)
    trigger,        \* the widget interaction that started this run
    calls,          \* backend calls made by this run, in order
    profile,        \* sidebar inputs: gender, age, height, weight
    bmi,            \* line 76
    bmi_category,   \* line 77
    session,        \* tab1 inputs: exercise_type, duration, heart_rate, body_temp
    calories,       \* line 133 (NoValue when the button was not pressed)
    logged,         \* history: every log_entry handed to add_entry, with its time
    run_start,      \* history: the log as this run's LogBook() found it
    days_filter,    \* line 166
    logs_df,        \* line 168
    tab2_view,      \* what tab2 rendered: "none", "analytics", "empty"
    stats,          \* line 172
    bmr,            \* lines 325-328, in quarter kcal
    goal,           \* lines 336-339: the third metric's label
    target_bmi,     \* line 419
    suggestions,    \* line 435 (NoValue when the button was not pressed)
    weights,        \* line 469
    sidebar_logs,   \* line 541
    sidebar_view,   \* what the sidebar footer rendered
    week_stats      \* line 544

vars == <<store, now, pc, trigger, run_start, calls, profile, bmi, bmi_category, session,
          calories, logged, days_filter, logs_df, tab2_view, stats, bmr, goal,
          target_bmi, suggestions, weights, sidebar_logs, sidebar_view, week_stats>>

runvars == <<calls, profile, bmi, bmi_category, session, calories, days_filter,
             logs_df, tab2_view, stats, bmr, goal, target_bmi, suggestions,
             weights, sidebar_logs, sidebar_view, week_stats>>

NoValue == "none"

---------------------------------------------------------------------------
(* Bounds of the model *)

MaxLog == 2         \* entries the log may hold
MaxMonths == 3      \* longest monthly plan examined

---------------------------------------------------------------------------
(* Exact rationals *)

RECURSIVE GCD(_, _)
GCD(a, b) == IF b = 0 THEN a ELSE GCD(b, a % b)

Abs(x) == IF x < 0 THEN -x ELSE x

RNorm(n, d) ==
    LET g == GCD(Abs(n), Abs(d)) IN
    IF d < 0 THEN <<(-n) \div g, (-d) \div g>> ELSE <<n \div g, d \div g>>

RInt(n) == <<n, 1>>
RLt(a, b) == a[1] * b[2] < b[1] * a[2]
RLe(a, b) == a[1] * b[2] <= b[1] * a[2]
REq(a, b) == a[1] * b[2] = b[1] * a[2]
RAdd(a, b) == RNorm(a[1] * b[2] + b[1] * a[2], a[2] * b[2])
RSub(a, b) == RNorm(a[1] * b[2] - b[1] * a[2], a[2] * b[2])
RMul(a, b) ==
    LET g1 == GCD(Abs(a[1]), b[2])
        g2 == GCD(Abs(b[1]), a[2])
    IN  RNorm((a[1] \div g1) * (b[1] \div g2), (a[2] \div g2) * (b[2] \div g1))
RDivInt(a, n) == RMul(a, <<1, n>>)

---------------------------------------------------------------------------
(* Widget ranges and options of app.py *)

MinAge == 10
MaxAge == 100
MinHeight == 100
MaxHeight == 250
MinWeight == 30
MaxWeight == 200

Genders == {"Male", "Female"}
ExerciseTypes == {"Running", "Walking", "Cycling", "Swimming", "Gym"}
TimePeriods == {7, 14, 30, 60, 90}
MinTargetBmi == <<185, 10>>
MaxTargetBmi == <<249, 10>>
DefaultTargetBmi == <<22, 1>>

(* The values of each widget that the model examines. *)
Ages == {MinAge, 30, MaxAge}
Heights == {MinHeight, 120, 140, 160, 170, 200, MaxHeight}
Weights == {MinWeight, 36, 49, 64, 70, 72, 74, 100, 120, MaxWeight}
AllProfiles == [gender : Genders, age : Ages, height : Heights, weight : Weights]
LogProfiles == [gender : {"Male"}, age : {30}, height : {170}, weight : {70}]
Sessions ==
    { [exercise_type |-> "Running", duration |-> 30, heart_rate |-> 120,
       body_temp |-> <<37, 1>>],
      [exercise_type |-> "Gym", duration |-> 45, heart_rate |-> 150,
       body_temp |-> <<375, 10>>] }
TargetBmis == {MinTargetBmi, DefaultTargetBmi, <<203, 10>>, MaxTargetBmi}
Instants == {0, 7, 8, 38, 98}
Kcals == {150, 325}
Triggers == {"calculate", "plan", "other"}
AdviceTriggers == {"plan", "other"}

---------------------------------------------------------------------------
(* Sidebar: BMI (line 76) *)

(* Sign of the rounding error of the double computed by
   weight / ((height / 100) ** 2) where the exact quotient is one of the
   thresholds 18.5, 24.9, 25, 30 the BMI is compared with.  Over the whole
   widget ranges these three profiles are the only ones for which a comparison
   of the double with a threshold differs from the comparison of the exact
   quotient: 49/1.4**2 = 25.000000000000004, 64/1.6**2 = 121/2.2**2 =
   24.999999999999996. *)
BmiUlp(w, h) ==
    CASE <<w, h>> = <<49, 140>> -> 1
      [] <<w, h>> = <<64, 160>> -> -1
      [] <<w, h>> = <<121, 220>> -> -1
      [] OTHER -> 0

BmiOf(w, h) == [q |-> RNorm(w * 10000, h * h), ulp |-> BmiUlp(w, h)]

(* Comparisons of a BMI double with an exactly representable threshold. *)
FLt(b, t) == RLt(b.q, t) \/ (REq(b.q, t) /\ b.ulp < 0)
FGt(b, t) == RLt(t, b.q) \/ (REq(b.q, t) /\ b.ulp > 0)
FLe(b, t) == ~FGt(b, t)
FGe(b, t) == ~FLt(b, t)

---------------------------------------------------------------------------
(* backend.NutritionAdvisor *)

UnderweightBelow == <<185, 10>>
NormalBelow == <<25, 1>>
OverweightBelow == <<30, 1>>

get_bmi_category(b) ==
    IF FLt(b, UnderweightBelow) THEN "Underweight"
    ELSE IF FLt(b, NormalBelow) THEN "Normal"
    ELSE IF FLt(b, OverweightBelow) THEN "Overweight"
    ELSE "Obese"

(* One monthly plan of n months: month m's target weight is the linear
   interpolation between the current weight and target_bmi * (height/100)^2.
   The length of the plan is a rule of the backend the specification does not
   give; every length up to MaxMonths is examined. *)
MonthlyPlan(b, tbmi, w, h, n) ==
    LET tw == RMul(tbmi, RNorm(h * h, 10000))
        diff == RSub(RInt(w), tw)
    IN  [m \in 1..n |->
            [month |-> m,
             target_weight |-> RSub(RInt(w), RDivInt(RMul(diff, RInt(m)), n))]]

get_monthly_suggestions(b, tbmi, w, h) ==
    { [monthly_plan |-> MonthlyPlan(b, tbmi, w, h, n)] : n \in 1..MaxMonths }

---------------------------------------------------------------------------
(* backend.CaloriePredictor: a formula or a pickled regression model.  Its
   value is opaque; any of Kcals may come back. *)

predict_calories(p, s) == Kcals

---------------------------------------------------------------------------
(* backend.LogBook *)

LogBook_fresh(log) == <<>>

(* LogBook(): the object reads the process-local log. *)
LogBook(log) == log

add_entry_front(log, entry, t) ==
    <<[timestamp |-> t,
       calories_burned |-> entry.calories_burned,
       exercise_type |-> entry.exercise_type,
       duration |-> entry.duration,
       heart_rate |-> entry.heart_rate,
       body_temp |-> entry.body_temp,
       weight |-> entry.weight,
       bmi |-> entry.bmi]>> \o log

(* add_entry(entry): the entry, stamped with the time, goes last. *)
add_entry(log, entry, t) ==
    Append(log, [timestamp |-> t,
                 calories_burned |-> entry.calories_burned,
                 exercise_type |-> entry.exercise_type,
                 duration |-> entry.duration,
                 heart_rate |-> entry.heart_rate,
                 body_temp |-> entry.body_temp,
                 weight |-> entry.weight,
                 bmi |-> entry.bmi])

RECURSIVE get_logs(_, _, _)
get_logs(log, t, days) ==
    IF log = <<>> THEN <<>>
    ELSE IF Head(log).timestamp >= t - days
         THEN <<Head(log)>> \o get_logs(Tail(log), t, days)
         ELSE get_logs(Tail(log), t, days)

RECURSIVE StatsLoop(_, _, _, _)
StatsLoop(log, i, cutoff, acc) ==
    IF i > Len(log) THEN acc
    ELSE IF log[i].timestamp >= cutoff
         THEN StatsLoop(log, i + 1, cutoff,
                        [total_calories |-> acc.total_calories + log[i].calories_burned,
                         total_duration |-> acc.total_duration + log[i].duration,
                         total_sessions |-> acc.total_sessions + 1])
         ELSE StatsLoop(log, i + 1, cutoff, acc)

get_stats(log, t, days) ==
    LET acc == StatsLoop(log, 1, t - days,
                         [total_calories |-> 0, total_duration |-> 0, total_sessions |-> 0])
    IN  [total_calories |-> acc.total_calories,
         total_duration |-> acc.total_duration,
         total_sessions |-> acc.total_sessions,
         avg_calories |-> IF acc.total_sessions = 0 THEN RInt(0)
                          ELSE RNorm(acc.total_calories, acc.total_sessions)]

---------------------------------------------------------------------------
(* The script, top to bottom *)

Call(fn, arg, n) == [fn |-> fn, arg |-> arg, n |-> n]

Idle ==
    /\ calls = <<>>
    /\ profile = NoValue /\ bmi = NoValue /\ bmi_category = NoValue
    /\ session = NoValue /\ calories = NoValue
    /\ days_filter = NoValue /\ logs_df = <<>> /\ tab2_view = NoValue
    /\ stats = NoValue /\ bmr = NoValue /\ goal = NoValue
    /\ target_bmi = NoValue /\ suggestions = NoValue /\ weights = NoValue
    /\ sidebar_logs = <<>> /\ sidebar_view = NoValue /\ week_stats = NoValue

Init ==
    /\ store = <<>>
    /\ now = 0
    /\ pc = "idle"
    /\ trigger = NoValue
    /\ logged = <<>>
    /\ run_start = <<>>
    /\ Idle

(* Lines 32-34: a run begins; logbook = LogBook(). *)
StartRunOf(T) ==
    /\ pc = "idle"
    /\ \E t \in T :
        /\ t = "calculate" => Len(store) < MaxLog
        /\ trigger' = t
    /\ store' = LogBook(store)
    /\ run_start' = LogBook(store)
    /\ pc' = "sidebar"
    /\ UNCHANGED <<now, logged, runvars>>

(* Lines 67-91. *)
SidebarOf(P) ==
    /\ pc = "sidebar"
    /\ \E p \in P :
        LET b == BmiOf(p.weight, p.height) IN
        /\ profile' = p
        /\ bmi' = b
        /\ bmi_category' = get_bmi_category(b)
        /\ calls' = Append(calls, Call("get_bmi_category", b, 0))
    /\ pc' = "tab1"
    /\ UNCHANGED <<store, now, trigger, run_start, logged, session, calories, days_filter,
                   logs_df, tab2_view, stats, bmr, goal, target_bmi, suggestions,
                   weights, sidebar_logs, sidebar_view, week_stats>>

log_entry_swapped(c, s) ==
    [calories_burned |-> c,
     exercise_type |-> s.exercise_type,
     duration |-> s.heart_rate,
     heart_rate |-> s.duration,
     body_temp |-> s.body_temp,
     weight |-> profile.weight,
     bmi |-> bmi]

(* Lines 141-149. *)
log_entry(c, s) ==
    [calories_burned |-> c,
     exercise_type |-> s.exercise_type,
     duration |-> s.duration,
     heart_rate |-> s.heart_rate,
     body_temp |-> s.body_temp,
     weight |-> profile.weight,
     bmi |-> bmi]

(* Lines 103-160. *)
Tab1 ==
    /\ pc = "tab1"
    /\ \E s \in Sessions :
        /\ session' = s
        /\ IF trigger = "calculate"
           THEN \E c \in predict_calories(profile, s) :
                  /\ calories' = c
                  /\ store' = add_entry(store, log_entry(c, s), now)
                  /\ logged' = Append(logged, [entry |-> log_entry(c, s), at |-> now])
                  /\ calls' = calls \o <<Call("predict_calories", s, 0),
                                         Call("add_entry", log_entry(c, s), 0)>>
           ELSE UNCHANGED <<calories, store, logged, calls>>
    /\ pc' = "tab2"
    /\ UNCHANGED <<now, trigger, run_start, profile, bmi, bmi_category, days_filter,
                   logs_df, tab2_view, stats, bmr, goal, target_bmi, suggestions,
                   weights, sidebar_logs, sidebar_view, week_stats>>

(* Line 168. *)
tab2_logs(d) == get_logs(store, now, d)

DataFrameNeverEmpty(df) == FALSE

(* Line 170: DataFrame.empty of a frame built from a list of records. *)
DataFrameEmpty(df) == df = <<>>

tab2_stats_week(d) == get_stats(store, now, 7)

(* Line 172. *)
tab2_stats(d) == get_stats(store, now, d)

(* Lines 163-266. *)
Tab2 ==
    /\ pc = "tab2"
    /\ \E d \in TimePeriods :
        LET df == tab2_logs(d) IN
        /\ days_filter' = d
        /\ logs_df' = df
        /\ IF ~DataFrameEmpty(df)
           THEN /\ stats' = tab2_stats(d)
                /\ tab2_view' = "analytics"
                /\ calls' = calls \o
                      <<Call("get_logs", d, Len(df)),
                        Call("get_stats", d, tab2_stats(d).total_sessions),
                        Call("get_daily_aggregates", d, Len(tab2_logs(d))),
                        Call("analyze_performance", d, Len(df))>>
           ELSE /\ stats' = NoValue
                /\ tab2_view' = "empty"
                /\ calls' = Append(calls, Call("get_logs", d, Len(df)))
    /\ pc' = "tab3"
    /\ UNCHANGED <<store, now, trigger, run_start, logged, profile, bmi, bmi_category,
                   session, calories, bmr, goal, target_bmi, suggestions,
                   weights, sidebar_logs, sidebar_view, week_stats>>

(* Lines 285-290: the gauge's bands, and line 283, its axis. *)
GaugeAxis == <<RInt(15), RInt(40)>>
GaugeSteps_ideal ==
    << [range |-> <<RInt(15), <<185, 10>>>>, color |-> "lightblue"],
       [range |-> <<<<185, 10>>, <<249, 10>>>>, color |-> "lightgreen"],
       [range |-> <<<<249, 10>>, RInt(30)>>, color |-> "yellow"],
       [range |-> <<RInt(30), RInt(40)>>, color |-> "lightcoral"] >>

GaugeSteps ==
    << [range |-> <<RInt(15), <<185, 10>>>>, color |-> "lightblue"],
       [range |-> <<<<185, 10>>, RInt(25)>>, color |-> "lightgreen"],
       [range |-> <<RInt(25), RInt(30)>>, color |-> "yellow"],
       [range |-> <<RInt(30), RInt(40)>>, color |-> "lightcoral"] >>

BMR_swapped(p) ==
    LET base == RSub(RAdd(RInt(10 * p.weight), RMul(<<625, 100>>, RInt(p.height))),
                     RInt(5 * p.age))
    IN  IF p.gender = "Male" THEN RSub(base, RInt(161)) ELSE RAdd(base, RInt(5))

(* Lines 325-328: Mifflin-St Jeor. *)
BMR(p) ==
    LET base == RSub(RAdd(RInt(10 * p.weight), RMul(<<625, 100>>, RInt(p.height))),
                     RInt(5 * p.age))
    IN  IF p.gender = "Male" THEN RAdd(base, RInt(5)) ELSE RSub(base, RInt(161))

(* Lines 334-339: the third metric of the calorie guidelines. *)
CalorieGoal(b, r) ==
    LET maintain == RMul(r, <<155, 100>>) IN
    IF FGt(b, RInt(25))
    THEN [label |-> "Weight Loss Goal", value |-> RSub(maintain, RInt(500))]
    ELSE [label |-> "Weight Gain Goal", value |-> RAdd(maintain, RInt(500))]

(* Lines 269-339. *)
Tab3 ==
    /\ pc = "tab3"
    /\ bmr' = BMR(profile)
    /\ goal' = CalorieGoal(bmi, BMR(profile))
    /\ calls' = Append(calls, Call("get_nutrition_tips", bmi, 0))
    /\ pc' = "tab4"
    /\ UNCHANGED <<store, now, trigger, run_start, logged, profile, bmi, bmi_category,
                   session, calories, days_filter, logs_df, tab2_view, stats,
                   target_bmi, suggestions, weights, sidebar_logs, sidebar_view,
                   week_stats>>

(* Lines 342-403. *)
Tab4 ==
    /\ pc = "tab4"
    /\ calls' = Append(calls, Call("get_recommended_exercises", bmi, 0))
    /\ pc' = "tab5"
    /\ UNCHANGED <<store, now, trigger, run_start, logged, profile, bmi, bmi_category,
                   session, calories, days_filter, logs_df, tab2_view, stats,
                   bmr, goal, target_bmi, suggestions, weights, sidebar_logs,
                   sidebar_view, week_stats>>

(* Line 423: the widget's initial value. *)
TargetDefault(b) ==
    IF FGe(b, MinTargetBmi) /\ FLe(b, MaxTargetBmi) THEN b.q ELSE DefaultTargetBmi

(* Line 427. *)
target_weight(tb) == RMul(tb, RNorm(profile.height * profile.height, 10000))

monthly_plan_call_swapped(tb) ==
    get_monthly_suggestions(bmi, tb, profile.height, profile.weight)

(* Line 435. *)
monthly_plan_call(tb) ==
    get_monthly_suggestions(bmi, tb, profile.weight, profile.height)

(* Line 469. *)
journey(sug) ==
    <<RInt(profile.weight)>> \o
    [i \in 1..Len(sug.monthly_plan) |-> sug.monthly_plan[i].target_weight]

(* Lines 406-525. *)
Tab5Of(TB) ==
    /\ pc = "tab5"
    /\ \E tb \in TB \cup {TargetDefault(bmi)} :
        /\ target_bmi' = tb
        /\ IF trigger = "plan"
           THEN \E sug \in monthly_plan_call(tb) :
                  /\ suggestions' = sug
                  /\ weights' = journey(sug)
                  /\ calls' = Append(calls, Call("get_monthly_suggestions", tb, 0))
           ELSE UNCHANGED <<suggestions, weights, calls>>
    /\ pc' = "footer"
    /\ UNCHANGED <<store, now, trigger, run_start, logged, profile, bmi, bmi_category,
                   session, calories, days_filter, logs_df, tab2_view, stats,
                   bmr, goal, sidebar_logs, sidebar_view, week_stats>>

(* Line 541: the window of the sidebar's quick stats. *)
SidebarDays == 7

quick_logs_month == get_logs(store, now, 30)

(* Line 541. *)
quick_logs == get_logs(store, now, SidebarDays)

(* Line 544. *)
quick_stats == get_stats(store, now, SidebarDays)

(* Lines 538-549. *)
Footer ==
    /\ pc = "footer"
    /\ sidebar_logs' = quick_logs
    /\ IF quick_logs = <<>>
       THEN /\ sidebar_view' = "no_activity"
            /\ week_stats' = NoValue
            /\ calls' = Append(calls, Call("get_logs", SidebarDays, 0))
       ELSE /\ sidebar_view' = "stats"
            /\ week_stats' = quick_stats
            /\ calls' = calls \o <<Call("get_logs", SidebarDays, Len(quick_logs)),
                                   Call("get_stats", SidebarDays, quick_stats.total_sessions)>>
    /\ pc' = "done"
    /\ UNCHANGED <<store, now, trigger, run_start, logged, profile, bmi, bmi_category,
                   session, calories, days_filter, logs_df, tab2_view, stats,
                   bmr, goal, target_bmi, suggestions, weights>>

(* The script has run to its end; the page waits for the next interaction. *)
EndRun ==
    /\ pc = "done"
    /\ pc' = "idle"
    /\ trigger' = NoValue
    /\ calls' = <<>>
    /\ profile' = NoValue /\ bmi' = NoValue /\ bmi_category' = NoValue
    /\ session' = NoValue /\ calories' = NoValue
    /\ days_filter' = NoValue /\ logs_df' = <<>> /\ tab2_view' = NoValue
    /\ stats' = NoValue /\ bmr' = NoValue /\ goal' = NoValue
    /\ target_bmi' = NoValue /\ suggestions' = NoValue /\ weights' = NoValue
    /\ sidebar_logs' = <<>> /\ sidebar_view' = NoValue /\ week_stats' = NoValue
    /\ UNCHANGED <<store, now, run_start, logged>>

(* Time passes between two interactions. *)
Tick ==
    /\ pc = "idle"
    /\ \E t \in Instants : t > now /\ now' = t
    /\ UNCHANGED <<store, pc, trigger, run_start, logged, runvars>>

(* The app with the sidebar left at its defaults: sessions are logged, time
   passes, the log is read back. *)
Next ==
    \/ StartRunOf(Triggers)
    \/ SidebarOf(LogProfiles)
    \/ Tab1
    \/ Tab2
    \/ Tab3
    \/ Tab4
    \/ Tab5Of({})
    \/ Footer
    \/ EndRun
    \/ Tick

Spec == Init /\ [][Next]_vars

(* The app over every examined profile and target BMI, with an empty log
   and the Calculate button left alone. *)
NextAdvice ==
    \/ StartRunOf(AdviceTriggers)
    \/ SidebarOf(AllProfiles)
    \/ Tab1
    \/ Tab2
    \/ Tab3
    \/ Tab4
    \/ Tab5Of(TargetBmis)
    \/ Footer
    \/ EndRun

SpecAdvice == Init /\ [][NextAdvice]_vars

---------------------------------------------------------------------------
(* Properties.  The log and the clock change only in StartRunOf, Tab1 and
   Tick, and every run ends idle: each reachable pair of log and clock occurs
   in an idle state, where the properties of get_logs and get_stats as
   functions of the log are stated.  Properties of the BMI category and the
   BMR as functions of the profile are stated there too, over the whole
   widget ranges. *)

AfterTab1 == {"tab2", "tab3", "tab4", "tab5", "footer", "done"}
AfterTab2 == {"tab3", "tab4", "tab5", "footer", "done"}
AfterTab3 == {"tab4", "tab5", "footer", "done"}
AfterTab5 == {"footer", "done"}

(* Windows a caller may ask for: the offered periods and some others. *)
Windows == TimePeriods \cup {0, 1, 45, 365}

RECURSIVE SumCalories(_)
SumCalories(entries) ==
    IF entries = <<>> THEN 0
    ELSE Head(entries).calories_burned + SumCalories(Tail(entries))

RECURSIVE SumDuration(_)
SumDuration(entries) ==
    IF entries = <<>> THEN 0
    ELSE Head(entries).duration + SumDuration(Tail(entries))

StatsAgree(st, entries) ==
    /\ st.total_sessions = Len(entries)
    /\ st.total_calories = SumCalories(entries)
    /\ st.total_duration = SumDuration(entries)
    /\ Len(entries) > 0 =>
          st.avg_calories[1] * Len(entries) = SumCalories(entries) * st.avg_calories[2]

(* C1: for every log history and every window, get_stats(days) agrees with
   get_logs(days): total_sessions is the number of entries get_logs returns,
   total_calories and total_duration are the sums over them, and avg_calories
   is total_calories / total_sessions; so the statistics tab2 and the sidebar
   show are those of the entries they fetched. *)
C1_StatsAgreeWithLogs ==
    /\ pc = "idle" =>
          \A d \in Windows :
             StatsAgree(get_stats(store, now, d), get_logs(store, now, d))
    /\ (pc \in AfterTab2 /\ tab2_view = "analytics") => StatsAgree(stats, logs_df)
    /\ (pc = "done" /\ sidebar_view = "stats") => StatsAgree(week_stats, sidebar_logs)

C1_Witness ==
    /\ pc = "done"
    /\ tab2_view = "analytics"
    /\ Len(store) = 2
    /\ Len(logs_df) = 2
    /\ stats.avg_calories = <<475, 2>>
    /\ sidebar_view = "stats"
    /\ week_stats.total_sessions = 1

(* C5: the log is append-only and its entries immutable: every step keeps the
   log it found as a prefix of the log it leaves, only the Calculate handler's
   add_entry extends it, by one entry placed last, and no read changes it. *)
C5_AppendOnly ==
    [][ /\ Len(store') >= Len(store)
        /\ SubSeq(store', 1, Len(store)) = store
        /\ store' # store =>
              /\ pc = "tab1"
              /\ trigger = "calculate"
              /\ Len(store') = Len(store) + 1 ]_vars

C5_Witness ==
    /\ pc = "done"
    /\ trigger = "other"
    /\ Len(store) = 2
    /\ store[1].timestamp < store[2].timestamp
    /\ tab2_view = "analytics"
    /\ sidebar_view = "stats"

ReadsAfterGetLogs == {"get_stats", "get_daily_aggregates", "analyze_performance"}

(* C6: missing log data leads to the empty state: when get_logs(days_filter)
   returns nothing tab2 shows only the 'No logs yet' message and calls none of
   get_stats, get_daily_aggregates, analyze_performance; when get_logs(7)
   returns nothing the sidebar shows 'No activity this week' and does not call
   get_stats; get_stats is only ever called on a non-empty window. *)
C6_EmptyState ==
    /\ pc \in AfterTab2 =>
          /\ (logs_df = <<>>) <=> (tab2_view = "empty")
          /\ (logs_df # <<>>) <=> (tab2_view = "analytics")
    /\ pc = "done" =>
          /\ (sidebar_logs = <<>>) <=> (sidebar_view = "no_activity")
          /\ (sidebar_logs # <<>>) <=> (sidebar_view = "stats")
    /\ \A i \in 1..Len(calls) :
          /\ calls[i].fn = "get_stats" => calls[i].n > 0
          /\ calls[i].fn \in ReadsAfterGetLogs =>
                \E j \in 1..(i - 1) :
                    /\ calls[j].fn = "get_logs"
                    /\ calls[j].arg = calls[i].arg
                    /\ calls[j].n > 0
                    /\ \A k \in (j + 1)..(i - 1) : calls[k].fn \in ReadsAfterGetLogs
          /\ (calls[i].fn = "get_logs" /\ calls[i].n = 0 /\ i < Len(calls)) =>
                calls[i + 1].fn \notin ReadsAfterGetLogs

C6_Witness ==
    /\ pc = "done"
    /\ Len(store) > 0
    /\ tab2_view = "empty"
    /\ sidebar_view = "no_activity"

(* Positions in the log of the entries not older than `days` days. *)
InWindow(log, t, days) == {i \in 1..Len(log) : t - log[i].timestamp <= days}

(* The k-th smallest element of a set of positions. *)
Kth(I, k) == CHOOSE i \in I : Cardinality({j \in I : j < i}) = k - 1

IsFilterOf(result, log, I) ==
    /\ Len(result) = Cardinality(I)
    /\ \A k \in 1..Len(result) : result[k] = log[Kth(I, k)]

Occurs(e, entries) == \E k \in 1..Len(entries) : entries[k] = e

(* C7: get_logs(days) returns exactly the entries whose timestamp is within
   the last `days` days, in append order and unaltered; so for windows
   d1 <= d2 among the offered periods every entry of get_logs(d1) is in
   get_logs(d2), and the sidebar's week is contained in tab2's period. *)
C7_GetLogsIsWindowFilter ==
    /\ pc = "idle" =>
          /\ \A d \in Windows :
                IsFilterOf(get_logs(store, now, d), store, InWindow(store, now, d))
          /\ \A d1, d2 \in TimePeriods :
                d1 <= d2 =>
                   \A k \in 1..Len(get_logs(store, now, d1)) :
                      Occurs(get_logs(store, now, d1)[k], get_logs(store, now, d2))
    /\ pc \in AfterTab2 =>
          IsFilterOf(logs_df, store, InWindow(store, now, days_filter))
    /\ pc = "done" =>
          /\ IsFilterOf(sidebar_logs, store, InWindow(store, now, 7))
          /\ \A k \in 1..Len(sidebar_logs) : Occurs(sidebar_logs[k], logs_df)

C7_Witness ==
    /\ pc = "done"
    /\ Len(store) = 2
    /\ Len(sidebar_logs) = 1
    /\ Len(logs_df) = 2
    /\ days_filter = 30

CallsOf(fn) == {i \in 1..Len(calls) : calls[i].fn = fn}

Stamped(entry, t) ==
    [timestamp |-> t,
     calories_burned |-> entry.calories_burned,
     exercise_type |-> entry.exercise_type,
     duration |-> entry.duration,
     heart_rate |-> entry.heart_rate,
     body_temp |-> entry.body_temp,
     weight |-> entry.weight,
     bmi |-> entry.bmi]

(* C8: a run in which 'Calculate Calories Burned' was pressed calls
   predict_calories exactly once and then add_entry exactly once, with an
   entry whose calories_burned is the value just predicted and whose
   exercise_type, duration, heart_rate, body_temp, weight and bmi are the form
   inputs of that run; a run in which it was not pressed calls neither and
   leaves the log unchanged. *)
C8_OnePredictionOneEntry ==
    pc \in AfterTab1 =>
       IF trigger = "calculate"
       THEN /\ Cardinality(CallsOf("predict_calories")) = 1
            /\ Cardinality(CallsOf("add_entry")) = 1
            /\ \A i \in CallsOf("predict_calories"), j \in CallsOf("add_entry") :
                  /\ i < j
                  /\ calls[i].arg = session
                  /\ calls[j].arg.calories_burned = calories
                  /\ calls[j].arg.exercise_type = session.exercise_type
                  /\ calls[j].arg.duration = session.duration
                  /\ calls[j].arg.heart_rate = session.heart_rate
                  /\ calls[j].arg.body_temp = session.body_temp
                  /\ calls[j].arg.weight = profile.weight
                  /\ calls[j].arg.bmi = BmiOf(profile.weight, profile.height)
                  /\ store = Append(run_start, Stamped(calls[j].arg, now))
            /\ calories \in Kcals
       ELSE /\ CallsOf("predict_calories") = {}
            /\ CallsOf("add_entry") = {}
            /\ store = run_start

C8_Witness ==
    /\ pc = "done"
    /\ trigger = "calculate"
    /\ Len(store) = 2
    /\ calories = 325
    /\ session.exercise_type = "Gym"
    /\ store[2].duration = 45
    /\ store[2].weight = 70

(* C9: an entry logged by a prediction stays in the one process-local log
   across UI interactions: get_logs returns it for every offered window that
   still covers its timestamp, in the analytics tab and the sidebar of the run
   that logged it and of every later run, each of which constructs a new
   LogBook(). *)
C9_LoggedEntryIsKept ==
    \A i \in 1..Len(logged) :
       LET e == Stamped(logged[i].entry, logged[i].at) IN
       /\ pc = "idle" =>
             \A d \in TimePeriods :
                now - logged[i].at <= d => Occurs(e, get_logs(store, now, d))
       /\ (pc \in AfterTab2 /\ now - logged[i].at <= days_filter) => Occurs(e, logs_df)
       /\ (pc = "done" /\ now - logged[i].at <= 7) => Occurs(e, sidebar_logs)

C9_Witness ==
    /\ pc = "done"
    /\ trigger = "other"
    /\ Len(logged) = 2
    /\ logged[1].at < logged[2].at
    /\ logged[2].at < now
    /\ Len(logs_df) = 2
    /\ Len(sidebar_logs) = 1

Categories == <<"Underweight", "Normal", "Overweight", "Obese">>
Thresholds == {<<185, 10>>, RInt(25), RInt(30)}

(* The band a BMI lies in, counted from 1: thresholds at or below it, plus 1. *)
BandOf(b) == 1 + Cardinality({t \in Thresholds : FGe(b, t)})

OnGauge(b) == FGe(b, GaugeAxis[1]) /\ FLe(b, GaugeAxis[2])

(* The band of the gauge a BMI on the axis points at: adjoining bands share
   their end; the later one is drawn over the earlier. *)
GaugeBand(b) ==
    LET hit == {i \in 1..Len(GaugeSteps) :
                   FGe(b, GaugeSteps[i].range[1]) /\ FLe(b, GaugeSteps[i].range[2])}
    IN  CHOOSE i \in hit : \A j \in hit : j <= i

(* C2: get_bmi_category puts the boundaries at exactly 18.5, 25 and 30: each
   BMI has one of four categories, the same throughout each of the bands below
   18.5, from 18.5 up to 25, from 25 up to 30, and from 30, a BMI equal to a
   threshold being in the upper band; and it is the band of the gauge drawn
   for that BMI, wherever the BMI is on the gauge's axis. *)
C2_CategoryBoundaries ==
    /\ pc \in AfterTab1 =>
          /\ \E i \in 1..4 : bmi_category = Categories[i]
          /\ bmi_category = Categories[BandOf(bmi)]
          /\ (bmi_category = "Underweight") <=> FLt(bmi, <<185, 10>>)
          /\ (bmi_category = "Obese") <=> FGe(bmi, RInt(30))
          /\ OnGauge(bmi) => bmi_category = Categories[GaugeBand(bmi)]
    /\ pc = "idle" =>
          \A w \in MinWeight..MaxWeight, h \in MinHeight..MaxHeight :
             LET b == BmiOf(w, h) IN
             /\ get_bmi_category(b) = Categories[BandOf(b)]
             /\ OnGauge(b) => get_bmi_category(b) = Categories[GaugeBand(b)]

C2_Witness ==
    /\ pc = "tab3"
    /\ bmi = [q |-> RInt(25), ulp |-> 0]
    /\ bmi_category = "Overweight"
    /\ GaugeBand(bmi) = 3

(* The value r is the Mifflin-St Jeor BMR of profile p, stated in quarter kcal. *)
IsMifflinStJeor(r, p) ==
    /\ r[2] > 0
    /\ 4 * r[1] =
          (40 * p.weight + 25 * p.height - 20 * p.age
             + (IF p.gender = "Male" THEN 20 ELSE -644)) * r[2]

(* C3: for each gender, age, height and weight of the sidebar, the BMR is the
   Mifflin-St Jeor value exactly: 10*weight + 6.25*height - 5*age + 5 for
   Male, 10*weight + 6.25*height - 5*age - 161 otherwise; the male value is
   166 above the female value of the same age, height and weight. *)
C3_MifflinStJeor ==
    /\ pc \in AfterTab3 => IsMifflinStJeor(bmr, profile)
    /\ pc = "idle" =>
          \A w \in MinWeight..MaxWeight, h \in MinHeight..MaxHeight, a \in Ages :
             LET male == [gender |-> "Male", age |-> a, height |-> h, weight |-> w]
                 female == [gender |-> "Female", age |-> a, height |-> h, weight |-> w]
             IN  /\ IsMifflinStJeor(BMR(male), male)
                 /\ IsMifflinStJeor(BMR(female), female)
                 /\ RSub(BMR(male), BMR(female)) = RInt(166)

C3_Witness ==
    /\ pc = "tab4"
    /\ profile = [gender |-> "Female", age |-> 100, height |-> 250, weight |-> 200]
    /\ bmr = <<5803, 2>>

NonIncreasing(ws) == \A i \in 1..(Len(ws) - 1) : RLe(ws[i + 1], ws[i])
NonDecreasing(ws) == \A i \in 1..(Len(ws) - 1) : RLe(ws[i], ws[i + 1])

(* C4: for every current BMI, target BMI, weight and height the widgets
   accept, the plan's target weights interpolate monotonically between the
   current and the target weight: current weight followed by the monthly
   targets never rises when the current weight is above the target weight and
   never falls when it is below, and each monthly target lies between the
   current weight and target_bmi * (height/100)^2, ends included. *)
C4_PlanIsMonotone ==
    (pc \in AfterTab5 /\ trigger = "plan") =>
       LET w == RInt(profile.weight)
           tw == target_weight(target_bmi)
       IN  /\ Len(weights) = Len(suggestions.monthly_plan) + 1
           /\ weights[1] = w
           /\ \A i \in 1..Len(suggestions.monthly_plan) :
                 /\ suggestions.monthly_plan[i].month = i
                 /\ weights[i + 1] = suggestions.monthly_plan[i].target_weight
           /\ RLt(tw, w) => NonIncreasing(weights)
           /\ RLt(w, tw) => NonDecreasing(weights)
           /\ \A i \in 2..Len(weights) :
                 \/ RLe(tw, weights[i]) /\ RLe(weights[i], w)
                 \/ RLe(w, weights[i]) /\ RLe(weights[i], tw)

C4_Witness ==
    /\ pc = "done"
    /\ trigger = "plan"
    /\ profile.weight = 100
    /\ profile.height = 170
    /\ target_bmi = <<203, 10>>
    /\ Len(weights) = 4
    /\ RLt(weights[4], weights[3])
    /\ weights[4] = target_weight(target_bmi)

(* C10: the daily calorie goal agrees with the BMI category: 'Weight Loss
   Goal' (maintenance - 500) is shown exactly when the category is Overweight
   or Obese, and 'Weight Gain Goal' (maintenance + 500) only when it is
   Underweight. *)
C10_GoalAgreesWithCategory ==
    pc \in AfterTab3 =>
       /\ (goal.label = "Weight Loss Goal") <=> (bmi_category \in {"Overweight", "Obese"})
       /\ (goal.label = "Weight Gain Goal") => (bmi_category = "Underweight")

====
